---- MODULE Spec2Model ----
(***************************************************************************)
(* Model of run_server.py: an http.server.HTTPServer on ('localhost',4443) *)
(* with SimpleHTTPRequestHandler, its listening socket wrapped by          *)
(* ssl.wrap_socket(server_side=True), run by serve_forever().              *)
(*                                                                         *)
(* The script is ten lines; what it does is what the objects it builds do, *)
(* so the definitions below follow the CPython 3.11 methods those ten      *)
(* lines invoke (socketserver.BaseServer/TCPServer, ssl.SSLSocket,         *)
(* http.server.BaseHTTPRequestHandler/SimpleHTTPRequestHandler,            *)
(* posixpath, urllib.parse).  Strings are sequences of one-character       *)
(* strings, so that splitting, unquoting and normalising are computed.     *)
(***************************************************************************)
EXTENDS Naturals, Integers, Sequences, FiniteSets, TLC

VARIABLES
    mode,       \* which entry point of the program is exercised
    req,        \* handler: the request read from the stream
    perm,       \* handler: the permissions of the served tree (see Perms)
    resp,       \* handler: what handle_one_request wrote and touched
    proc,       \* server: position of the main thread in run_server.py
    exit,       \* server: how the process ended (NotExited while alive)
    portFree,   \* server: whether ('localhost', 4443) can be bound
    certOk,     \* server: whether the key/cert files load
    backlog,    \* server: connections completed by the kernel, not yet accepted
    conn,       \* server: per client, the state of its connection
    cur,        \* server: the connection the serving thread is working on
    inited,     \* process: mimetypes.inited, set by the first guess_type
    log         \* server: what the serving thread did, in order

vars == <<mode, req, perm, resp,
          proc, exit, portFree, certOk, backlog, conn, cur, inited, log>>

(***************************************************************************)
(* Strings                                                                  *)
(***************************************************************************)

\* str.startswith(c) for a one-character c
StartsWith(s, c) == Len(s) >= 1 /\ s[1] = c

\* str.endswith(c) for a one-character c
EndsWith(s, c) == Len(s) >= 1 /\ s[Len(s)] = c

\* str.find(c, i - 1) + 1: the first position of c in s at or after i, 0
\* when absent
RECURSIVE FindFrom(_, _, _)
FindFrom(s, c, i) ==
    IF i > Len(s) THEN 0
    ELSE IF s[i] = c THEN i
    ELSE FindFrom(s, c, i + 1)

IndexOf(s, c) == FindFrom(s, c, 1)

\* s.split(c, 1)[0]
SplitFirst(s, c) ==
    LET k == IndexOf(s, c) IN
    IF k = 0 THEN s ELSE SubSeq(s, 1, k - 1)

\* s.split(c): the pieces between the separators, empty pieces kept
RECURSIVE Split(_, _)
Split(s, c) ==
    LET k == IndexOf(s, c) IN
    IF k = 0 THEN <<s>>
    ELSE <<SubSeq(s, 1, k - 1)>> \o Split(SubSeq(s, k + 1, Len(s)), c)

\* c.join(words)
RECURSIVE Join(_, _)
Join(words, c) ==
    IF Len(words) = 0 THEN <<>>
    ELSE IF Len(words) = 1 THEN words[1]
    ELSE words[1] \o <<c>> \o Join(Tail(words), c)

\* s.lstrip(c)
RECURSIVE Lstrip(_, _)
Lstrip(s, c) == IF StartsWith(s, c) THEN Lstrip(Tail(s), c) ELSE s

\* filter(None, words)
RECURSIVE FilterEmpty(_)
FilterEmpty(words) ==
    IF Len(words) = 0 THEN <<>>
    ELSE IF Head(words) = <<>> THEN FilterEmpty(Tail(words))
    ELSE <<Head(words)>> \o FilterEmpty(Tail(words))

HexDigits == {"2", "d", "e", "f"}

\* bytes.fromhex of the two digits after a "%", as a character
HexChar(a, b) ==
    IF a = "2" /\ b = "e" THEN "."
    ELSE IF a = "2" /\ b = "f" THEN "/"
    ELSE "~"

\* urllib.parse.unquote: every %XX with two hex digits becomes its
\* character, once; a "%" not followed by two hex digits is kept
RECURSIVE unquote(_)
unquote(s) ==
    IF Len(s) = 0 THEN <<>>
    ELSE IF s[1] = "%" /\ Len(s) >= 3 /\ s[2] \in HexDigits /\ s[3] \in HexDigits
    THEN <<HexChar(s[2], s[3])>> \o unquote(SubSeq(s, 4, Len(s)))
    ELSE <<s[1]>> \o unquote(Tail(s))

DOT == <<".">>
DOTDOT == <<".", ".">>

\* the loop of posixpath.normpath over the components
RECURSIVE NormComps(_, _, _)
NormComps(comps, new_comps, initial_slashes) ==
    IF Len(comps) = 0 THEN new_comps
    ELSE LET comp == Head(comps) IN
         IF comp = <<>> \/ comp = DOT
         THEN NormComps(Tail(comps), new_comps, initial_slashes)
         ELSE IF comp # DOTDOT
                 \/ (initial_slashes = 0 /\ Len(new_comps) = 0)
                 \/ (Len(new_comps) > 0 /\ new_comps[Len(new_comps)] = DOTDOT)
         THEN NormComps(Tail(comps), Append(new_comps, comp), initial_slashes)
         ELSE IF Len(new_comps) > 0
         THEN NormComps(Tail(comps), SubSeq(new_comps, 1, Len(new_comps) - 1),
                        initial_slashes)
         ELSE NormComps(Tail(comps), new_comps, initial_slashes)

\* "/" * n
Slashes(n) == [i \in 1..n |-> "/"]

\* posixpath.normpath
normpath(path) ==
    IF path = <<>> THEN DOT
    ELSE LET initial_slashes ==
                 IF ~StartsWith(path, "/") THEN 0
                 ELSE IF Len(path) >= 2 /\ path[2] = "/"
                         /\ ~(Len(path) >= 3 /\ path[3] = "/")
                 THEN 2 ELSE 1
             joined == Join(NormComps(Split(path, "/"), <<>>, initial_slashes), "/")
             out == Slashes(initial_slashes) \o joined
         IN IF out = <<>> THEN DOT ELSE out

(***************************************************************************)
(* Request targets: concatenations of a few pieces, enough to write "..",  *)
(* "." and "/" literally and percent-encoded, names that exist, and a      *)
(* query.                                                                  *)
(***************************************************************************)

Pieces == { <<"/">>, <<".", ".">>, <<"%", "2", "e">>, <<"%", "2", "f">>,
            <<"d">>, <<"f">>, <<"?">> }

RECURSIVE PathsOfLen(_)
PathsOfLen(n) ==
    IF n = 0 THEN {<<>>}
    ELSE {p \o q : p \in PathsOfLen(n - 1), q \in Pieces}

\* the non-empty targets of at most n pieces
PathsUpTo(n) == UNION {PathsOfLen(k) : k \in 1..n}

(***************************************************************************)
(* The filesystem the process sees.  The working directory, which          *)
(* SimpleHTTPRequestHandler serves, is /w.  A key is the sequence of       *)
(* names from "/" down.                                                    *)
(***************************************************************************)

W == <<"w">>
D == <<"d">>
F == <<"f">>
INDEX_HTML == <<"i", "n", "d", "e", "x", ".", "h", "t", "m", "l">>
INDEX_HTM == <<"i", "n", "d", "e", "x", ".", "h", "t", "m">>
ETC == <<"e", "t", "c">>
MIME_TYPES == <<"m", "i", "m", "e", ".", "t", "y", "p", "e", "s">>

\* os.getcwd() at handler construction
directory == <<"/", "w">>

DirKeys == { <<>>, <<W>>, <<W, D>>, <<ETC>> }
FileKeys == { <<W, F>>, <<W, D, INDEX_HTML>>, <<F>>, <<ETC, MIME_TYPES>> }

\* the bytes of each regular file
FileBytes(k) ==
    IF k = <<W, F>> THEN <<10, 20, 30>>
    ELSE IF k = <<W, D, INDEX_HTML>> THEN <<40, 50>>
    ELSE <<99>>

\* st_mtime of every file, in microseconds: 1.5 s after the epoch
FileMtime == 1500000

\* send_head: datetime.fromtimestamp(fs.st_mtime, utc).replace(microsecond=0),
\* in seconds
last_modif == FileMtime \div 1000000

Missing == << <<"E", "N", "O", "E", "N", "T">> >>

\* the kernel's path walk: the key a path names, or Missing
RECURSIVE Walk(_, _)
Walk(at, segs) ==
    IF Len(segs) = 0 THEN at
    ELSE IF at \notin DirKeys THEN Missing
    ELSE LET s == Head(segs) IN
         IF s = <<>> \/ s = DOT THEN Walk(at, Tail(segs))
         ELSE IF s = DOTDOT
         THEN Walk(IF Len(at) = 0 THEN at ELSE SubSeq(at, 1, Len(at) - 1),
                   Tail(segs))
         ELSE IF Append(at, s) \in DirKeys \cup FileKeys
         THEN Walk(Append(at, s), Tail(segs))
         ELSE Missing

Lookup(path) ==
    LET k == Walk(<<>>, Split(path, "/")) IN
    IF EndsWith(path, "/") /\ k \notin DirKeys THEN Missing ELSE k

\* os.path.isdir / os.path.isfile
isdir(path) == Lookup(path) \in DirKeys
isfile(path) == Lookup(path) \in FileKeys

\* the key lies under the served directory (or is that directory)
UnderRoot(k) == k # Missing /\ Len(k) >= 1 /\ k[1] = W

(***************************************************************************)
(* SimpleHTTPRequestHandler.translate_path                                 *)
(***************************************************************************)

\* os.path.join(path, word) for a word without "/"
PathJoin(path, word) ==
    IF EndsWith(path, "/") THEN path \o word ELSE path \o <<"/">> \o word

\* a translate_path that joins every component, special or not
MutJoinWords(path, words) ==
    IF Len(words) = 0 THEN path ELSE path \o <<"/">> \o Join(words, "/")

\* the for loop of translate_path: special components are skipped
RECURSIVE JoinWords(_, _)
JoinWords(path, words) ==
    IF Len(words) = 0 THEN path
    ELSE IF Head(words) = DOT \/ Head(words) = DOTDOT
    THEN JoinWords(path, Tail(words))
    ELSE JoinWords(PathJoin(path, Head(words)), Tail(words))

translate_path(path) ==
    LET p1 == SplitFirst(SplitFirst(path, "?"), "#")
        trailing_slash == EndsWith(p1, "/")
        p2 == normpath(unquote(p1))
        words == FilterEmpty(Split(p2, "/"))
        out == JoinWords(directory, words)
    IN IF trailing_slash THEN out \o <<"/">> ELSE out

(***************************************************************************)
(* Requests.  A request is what the handler reads from the stream: the     *)
(* request line (kind "line": command, target, and the version word, ""    *)
(* when the line has two words), or one of the degenerate lines, and the   *)
(* headers that the handler looks at.                                      *)
(***************************************************************************)

Commands == {"GET", "HEAD", "POST"}
Versions == {"", "HTTP/1.0", "HTTP/1.1"}
RejectedVersions == {"HTTP/2.0", "FTP/1.1"}

\* If-Modified-Since / If-None-Match as the handler sees them.  ims: the
\* header is absent, does not parse (email.utils.parsedate_to_datetime
\* raises), or is a date; tz: the tzinfo of the parsed date, "utc" for a
\* zone of GMT or +0000 (datetime.timezone.utc), "naive" for no zone or
\* -0000 (None), "offset" for any other zone; t: the date in seconds after
\* the epoch, read as UTC when it is naive; inm: If-None-Match is present
NoCond == [ims |-> "absent", tz |-> "", t |-> 0, inm |-> FALSE]
Conds == { NoCond,
           [ims |-> "malformed", tz |-> "", t |-> 0, inm |-> FALSE],
           [ims |-> "date", tz |-> "utc", t |-> last_modif - 1, inm |-> FALSE],
           [ims |-> "date", tz |-> "utc", t |-> last_modif, inm |-> FALSE],
           [ims |-> "date", tz |-> "utc", t |-> last_modif, inm |-> TRUE],
           [ims |-> "date", tz |-> "naive", t |-> last_modif + 1, inm |-> FALSE],
           [ims |-> "date", tz |-> "offset", t |-> last_modif + 1,
            inm |-> FALSE] }

\* the header blocks: a conditional header, or Connection and Expect
HeaderBlocks ==
    {[cond |-> c, connection |-> "", expect100 |-> FALSE] : c \in Conds}
        \cup {[cond |-> NoCond, connection |-> k, expect100 |-> e] :
                  k \in {"", "keep-alive"}, e \in BOOLEAN}

RequestLines(commands, paths, versions) ==
    {[kind |-> "line", command |-> c, path |-> p, version |-> v,
      cond |-> h.cond, connection |-> h.connection, expect100 |-> h.expect100] :
         c \in commands, p \in paths, v \in versions, h \in HeaderBlocks}

LineRequests(paths) ==
    RequestLines(Commands, paths, Versions)
        \cup RequestLines(Commands, {<<"/">>, <<"f">>}, RejectedVersions)

\* no bytes (the peer closed), an empty line, a line of 65537 bytes or
\* more, one word, four words, a header block that is too large
OddKinds == {"eof", "blank", "toolong", "oneword", "fourwords", "bigheaders"}

OddRequests ==
    [kind : OddKinds, command : {"GET"}, path : {<<"/">>},
     version : {"HTTP/1.1"}, cond : {NoCond}, connection : {""},
     expect100 : {FALSE}]

(***************************************************************************)
(* BaseHTTPRequestHandler                                                  *)
(***************************************************************************)

\* a handler class that sets protocol_version = "HTTP/1.1"
MutProtocolVersion11 == <<1, 1>>

\* BaseHTTPRequestHandler.protocol_version, "HTTP/1.0", as (major, minor)
protocol_version == <<1, 0>>

\* tuple comparison a >= b
VerGE(a, b) == a[1] > b[1] \/ (a[1] = b[1] /\ a[2] >= b[2])

\* the version word parsed by parse_request; <<>> stands for ValueError
VersionNumber(v) ==
    IF v = "HTTP/1.0" THEN <<1, 0>>
    ELSE IF v = "HTTP/1.1" THEN <<1, 1>>
    ELSE IF v = "HTTP/2.0" THEN <<2, 0>>
    ELSE <<>>

\* the handler's output: status lines written, codes logged, header names
\* written, Content-Length (-1 when not written), the body, the filesystem
\* calls made, close_connection, and mimetypes.inited
NoResp ==
    [status |-> <<>>, logged |-> <<>>, headers |-> <<>>, contentLength |-> -1,
     bodyKind |-> "none", body |-> <<>>, fsops |-> <<>>,
     close |-> TRUE, inited |-> FALSE]

\* self.request_version != 'HTTP/0.9': whether status line and headers
\* reach the headers buffer
OnWire(rv) == rv # "HTTP/0.9"

\* send_response: log_request, send_response_only, Server and Date headers
send_response(o, rv, code) ==
    [o EXCEPT !.logged = Append(@, code),
              !.status = IF OnWire(rv) THEN Append(@, code) ELSE @,
              !.headers = IF OnWire(rv) THEN @ \o <<"Server", "Date">> ELSE @]

\* send_header
send_header(o, rv, name) ==
    [o EXCEPT !.headers = IF OnWire(rv) THEN Append(@, name) ELSE @]

\* the HTML page send_error writes; one byte stands for its text
ErrorPage(code) == <<code>>

\* send_error: the reply is written unless the message has no body by
\* definition; a HEAD request gets the headers only
send_error(o, rv, command, code) ==
    LET o1 == send_header(send_response(o, rv, code), rv, "Connection")
        hasBody == code >= 200 /\ code \notin {204, 205, 304}
        o2 == IF hasBody
              THEN [send_header(send_header(o1, rv, "Content-Type"), rv,
                                "Content-Length")
                      EXCEPT !.contentLength =
                                 IF OnWire(rv) THEN Len(ErrorPage(code)) ELSE @]
              ELSE o1
    IN [o2 EXCEPT !.close = TRUE,
                  !.bodyKind = IF command # "HEAD" /\ hasBody THEN "error" ELSE @,
                  !.body = IF command # "HEAD" /\ hasBody THEN ErrorPage(code) ELSE @]

(***************************************************************************)
(* SimpleHTTPRequestHandler                                                *)
(***************************************************************************)

\* the served tree is readable; or open() of every regular file of the
\* served tree fails with EACCES; or os.listdir of /w fails with EACCES
Perms == {"ok", "f_unreadable", "w_unlistable"}

\* open(path, 'rb') succeeds
CanOpen(path, pm) ==
    isfile(path) /\ ~(pm = "f_unreadable" /\ UnderRoot(Lookup(path)))

\* os.listdir(path) succeeds
CanList(path, pm) ==
    isdir(path) /\ ~(pm = "w_unlistable" /\ Lookup(path) = <<W>>)

\* the names os.listdir returns
Children(k) ==
    {c[Len(c)] : c \in {x \in DirKeys \cup FileKeys : Len(x) = Len(k) + 1
                                        /\ SubSeq(x, 1, Len(k)) = k}}

\* urllib.parse.urlsplit(path).path for a target with no scheme or netloc
UrlsplitPath(path) == SplitFirst(SplitFirst(path, "#"), "?")

\* a filesystem call: its name, the mode of an open ("" for the others),
\* its path
Call(op, flags, path) == [op |-> op, mode |-> flags, path |-> path]

FsOp(o, op, path) == [o EXCEPT !.fsops = Append(@, Call(op, "", path))]

\* open(path, flags)
OpenOp(o, path, flags) ==
    [o EXCEPT !.fsops = Append(@, Call("open", flags, path))]

\* the names of the tree in the order of list.sort(key=lambda a: a.lower())
NameOrder == <<D, ETC, F, INDEX_HTM, INDEX_HTML, MIME_TYPES, W>>

\* os.listdir(path), sorted
SortedNames(k) == SelectSeq(NameOrder, LAMBDA n : n \in Children(k))

\* the loop of list_directory: os.path.isdir and os.path.islink per entry
RECURSIVE StatEntries(_, _, _)
StatEntries(o, path, names) ==
    IF Len(names) = 0 THEN o
    ELSE StatEntries(FsOp(FsOp(o, "stat", PathJoin(path, Head(names))),
                          "lstat", PathJoin(path, Head(names))),
                     path, Tail(names))

\* list_directory: the page is built from os.listdir; one byte per entry
\* stands for its text
list_directory(o, rv, command, path, pm) ==
    LET o1 == FsOp(o, "listdir", path) IN
    IF ~CanList(path, pm)
    THEN [o |-> send_error(o1, rv, command, 404), f |-> "none", key |-> Missing]
    ELSE LET names == SortedNames(Lookup(path))
             o2 == StatEntries(o1, path, names)
             o3 == send_header(send_header(send_response(o2, rv, 200), rv,
                                           "Content-type"), rv, "Content-Length")
         IN [o |-> [o3 EXCEPT !.contentLength =
                                  IF OnWire(rv) THEN Len(names) ELSE @],
             f |-> "listing", key |-> Lookup(path)]

\* whether send_head answers 304: If-Modified-Since is present and
\* If-None-Match absent, the date parses, its tzinfo is None (then replaced
\* by UTC) or datetime.timezone.utc, and last_modif <= ims
NotModified(cond) ==
    /\ cond.ims = "date"
    /\ ~cond.inm
    /\ cond.tz \in {"naive", "utc"}
    /\ last_modif <= cond.t

\* an absolute path from its names
AbsPath(names) == <<"/">> \o Join(names, "/")

\* mimetypes.knownfiles
knownfiles ==
    << AbsPath(<<ETC, MIME_TYPES>>),
       AbsPath(<<ETC, <<"h", "t", "t", "p", "d">>, MIME_TYPES>>),
       AbsPath(<<ETC, <<"h", "t", "t", "p", "d">>, <<"c", "o", "n", "f">>,
                 MIME_TYPES>>),
       AbsPath(<<ETC, <<"a", "p", "a", "c", "h", "e">>, MIME_TYPES>>),
       AbsPath(<<ETC, <<"a", "p", "a", "c", "h", "e", "2">>, MIME_TYPES>>),
       AbsPath(<< <<"u", "s", "r">>, <<"l", "o", "c", "a", "l">>, ETC,
                 <<"h", "t", "t", "p", "d">>, <<"c", "o", "n", "f">>,
                 MIME_TYPES>>),
       AbsPath(<< <<"u", "s", "r">>, <<"l", "o", "c", "a", "l">>,
                 <<"l", "i", "b">>,
                 <<"n", "e", "t", "s", "c", "a", "p", "e">>, MIME_TYPES>>),
       AbsPath(<< <<"u", "s", "r">>, <<"l", "o", "c", "a", "l">>, ETC,
                 <<"h", "t", "t", "p", "d">>, <<"c", "o", "n", "f">>,
                 MIME_TYPES>>),
       AbsPath(<< <<"u", "s", "r">>, <<"l", "o", "c", "a", "l">>, ETC,
                 MIME_TYPES>>) >>

\* the loop of mimetypes.init over the files: os.path.isfile, then
\* MimeTypes.read, which opens the file for reading as text
RECURSIVE ReadKnownFiles(_)
ReadKnownFiles(files) ==
    IF Len(files) = 0 THEN <<>>
    ELSE <<Call("stat", "", Head(files))>>
         \o (IF isfile(Head(files))
             THEN <<Call("open", "r", Head(files))>> ELSE <<>>)
         \o ReadKnownFiles(Tail(files))

\* the filesystem calls of mimetypes.init()
mimetypes_init == ReadKnownFiles(knownfiles)

\* guess_type: no served name has an extension of extensions_map, so it
\* asks mimetypes.guess_type, which calls mimetypes.init() once per process
guess_type(o) ==
    IF o.inited THEN o
    ELSE [o EXCEPT !.inited = TRUE, !.fsops = @ \o mimetypes_init]

\* the part of send_head after the directory branch: path names the file
send_file(o0, rv, command, path, cond, pm) ==
    LET o == guess_type(o0) IN
    IF EndsWith(path, "/")
    THEN [o |-> send_error(o, rv, command, 404), f |-> "none", key |-> Missing]
    ELSE LET o1 == OpenOp(o, path, "rb") IN
         IF ~CanOpen(path, pm)
         THEN [o |-> send_error(o1, rv, command, 404), f |-> "none",
               key |-> Missing]
         ELSE IF NotModified(cond)
         THEN [o |-> send_response(o1, rv, 304), f |-> "none", key |-> Missing]
         ELSE LET o2 == send_header(send_header(send_header(
                              send_response(o1, rv, 200), rv, "Content-type"),
                              rv, "Content-Length"), rv, "Last-Modified")
              IN [o |-> [o2 EXCEPT !.contentLength =
                                       IF OnWire(rv)
                                       THEN Len(FileBytes(Lookup(path))) ELSE @],
                  f |-> "file", key |-> Lookup(path)]

\* a send_head that answers a directory with its index.html or 404
MutIndexOrFile(o, rv, command, path, cond, pm) ==
    IF isfile(PathJoin(path, INDEX_HTML))
    THEN send_file(FsOp(o, "stat", PathJoin(path, INDEX_HTML)), rv, command,
                   PathJoin(path, INDEX_HTML), cond, pm)
    ELSE [o |-> send_error(o, rv, command, 404), f |-> "none", key |-> Missing]

\* the for/else of send_head over "index.html", "index.htm"
IndexOrListing(o, rv, command, path, cond, pm) ==
    LET i1 == PathJoin(path, INDEX_HTML)
        i2 == PathJoin(path, INDEX_HTM)
        o1 == FsOp(o, "stat", i1)
        o2 == FsOp(o1, "stat", i2)
    IN IF isfile(i1) THEN send_file(o1, rv, command, i1, cond, pm)
       ELSE IF isfile(i2) THEN send_file(o2, rv, command, i2, cond, pm)
       ELSE list_directory(o2, rv, command, path, pm)

\* send_head: selfpath is self.path
send_head(o, rv, command, selfpath, cond, pm) ==
    LET path == translate_path(selfpath)
        o1 == FsOp(o, "stat", path)
    IN IF isdir(path)
       THEN IF ~EndsWith(UrlsplitPath(selfpath), "/")
            THEN LET o2 == send_header(send_header(
                               send_response(o1, rv, 301), rv, "Location"),
                               rv, "Content-Length")
                 IN [o |-> [o2 EXCEPT
                              !.contentLength = IF OnWire(rv) THEN 0 ELSE @],
                     f |-> "none", key |-> Missing]
            ELSE IndexOrListing(o1, rv, command, path, cond, pm)
       ELSE send_file(o1, rv, command, path, cond, pm)

\* a copyfile that stops one byte short
MutCopyfile(o, h) ==
    IF h.f = "file"
    THEN [o EXCEPT !.bodyKind = "file",
                   !.body = SubSeq(FileBytes(h.key), 1, Len(FileBytes(h.key)) - 1)]
    ELSE o

\* copyfile: shutil.copyfileobj of the open file to the stream
copyfile(o, h) ==
    IF h.f = "file"
    THEN [o EXCEPT !.bodyKind = "file", !.body = FileBytes(h.key)]
    ELSE IF h.f = "listing"
    THEN [o EXCEPT !.bodyKind = "listing",
                   !.body = [i \in 1..Len(SortedNames(h.key)) |-> 0]]
    ELSE o

\* do_GET
do_GET(o, rv, selfpath, cond, pm) ==
    LET h == send_head(o, rv, "GET", selfpath, cond, pm) IN copyfile(h.o, h)

\* do_HEAD
do_HEAD(o, rv, selfpath, cond, pm) ==
    send_head(o, rv, "HEAD", selfpath, cond, pm).o

(***************************************************************************)
(* parse_request and handle_one_request                                    *)
(***************************************************************************)

\* the number of words of the request line
NWords(r) ==
    IF r.kind = "blank" THEN 0
    ELSE IF r.kind = "oneword" THEN 1
    ELSE IF r.kind = "fourwords" THEN 4
    ELSE IF r.version = "" THEN 2 ELSE 3

\* self.path after parse_request: a leading run of "/" becomes one "/"
SelfPath(path) ==
    IF Len(path) >= 2 /\ path[1] = "/" /\ path[2] = "/"
    THEN <<"/">> \o Lstrip(path, "/") ELSE path

\* close_connection as parse_request leaves it on success
KeepAlive(r) ==
    \/ /\ VersionNumber(r.version) # <<>>
       /\ VerGE(VersionNumber(r.version), <<1, 1>>)
       /\ VerGE(protocol_version, <<1, 1>>)
    \/ r.connection = "keep-alive" /\ VerGE(protocol_version, <<1, 1>>)

\* parse_request: ok, the output so far, request_version, command, path.
\* request_version is still the default "HTTP/0.9" when the version word is
\* rejected, and command is still None ("") and path unset (<<>>) until the
\* line is accepted; both are set when parse_headers is called.
parse_request(o, r) ==
    LET n == NWords(r)
        vn == VersionNumber(r.version)
        fail(oo, rv) == [ok |-> FALSE, o |-> oo, rv |-> rv, command |-> "",
                         path |-> <<>>]
        failHeaders(oo, rv) == [ok |-> FALSE, o |-> oo, rv |-> rv,
                                command |-> r.command,
                                path |-> SelfPath(r.path)]
    IN
    IF n = 0 THEN fail(o, "HTTP/0.9")
    ELSE IF n >= 3 /\ vn = <<>>
    THEN fail(send_error(o, "HTTP/0.9", "", 400), "HTTP/0.9")
    ELSE IF n >= 3 /\ VerGE(vn, <<2, 0>>)
    THEN fail(send_error(o, "HTTP/0.9", "", 505), "HTTP/0.9")
    ELSE LET rv == IF n >= 3 THEN r.version ELSE "HTTP/0.9" IN
         IF n < 2 \/ n > 3 THEN fail(send_error(o, rv, "", 400), rv)
         ELSE IF n = 2 /\ r.command # "GET"
         THEN fail(send_error(o, rv, "", 400), rv)
         ELSE IF r.kind = "bigheaders"
         THEN failHeaders(send_error(o, rv, r.command, 431), rv)
         ELSE LET o1 == [o EXCEPT !.close = ~KeepAlive(r)]
                  o2 == IF r.expect100 /\ VerGE(protocol_version, <<1, 1>>)
                           /\ vn # <<>> /\ VerGE(vn, <<1, 1>>)
                        THEN [o1 EXCEPT !.status = Append(@, 100)]
                        ELSE o1
              IN [ok |-> TRUE, o |-> o2, rv |-> rv, command |-> r.command,
                  path |-> SelfPath(r.path)]

\* parse_request gets as far as parse_headers, which reads on for the
\* header lines and the blank line before anything is answered
ReachesParseHeaders(r) ==
    LET n == NWords(r)
        vn == VersionNumber(r.version)
    IN /\ r.kind \in {"line", "bigheaders"}
       /\ ~(n >= 3 /\ vn = <<>>)
       /\ ~(n >= 3 /\ VerGE(vn, <<2, 0>>))
       /\ ~(n = 2 /\ r.command # "GET")

\* the do_* methods SimpleHTTPRequestHandler has
HasMethod(command) == command \in {"GET", "HEAD"}

\* the handler's output at its start, in a process whose mimetypes.inited
\* is ini
Fresh(ini) == [NoResp EXCEPT !.inited = ini]

\* handle_one_request on the request r with the tree's permissions pm
handle_one_request(r, pm, ini) ==
    IF r.kind = "toolong" THEN send_error(Fresh(ini), "", "", 414)
    ELSE IF r.kind = "eof" THEN Fresh(ini)
    ELSE LET p == parse_request(Fresh(ini), r) IN
         IF ~p.ok THEN p.o
         ELSE IF ~HasMethod(p.command)
         THEN send_error(p.o, p.rv, p.command, 501)
         ELSE IF p.command = "GET"
         THEN do_GET(p.o, p.rv, p.path, r.cond, pm)
         ELSE do_HEAD(p.o, p.rv, p.path, r.cond, pm)

(***************************************************************************)
(* Bounds                                                                  *)
(***************************************************************************)

\* pieces in the target of a request with any command, version and headers
MaxReqPieces == 2

\* pieces in the target of a plain HTTP/1.1 GET or HEAD
MaxPathPieces == 4

(***************************************************************************)
(* Values the variables have while their part of the program is not the    *)
(* one exercised                                                           *)
(***************************************************************************)

NoReq ==
    [kind |-> "eof", command |-> "GET", path |-> <<"/">>, version |-> "",
     cond |-> NoCond, connection |-> "", expect100 |-> FALSE]
Pending == [done |-> FALSE, out |-> NoResp]

HandlerIdle == req = NoReq /\ perm = "ok" /\ resp = Pending /\ inited = FALSE
ServerIdle ==
    /\ proc = "off" /\ exit = "none" /\ portFree = TRUE /\ certOk = TRUE
    /\ backlog = <<>> /\ conn = <<>> /\ cur = 0 /\ log = <<>>

handlerVars == <<req, perm, resp, inited>>
serverVars == <<proc, exit, portFree, certOk, backlog, conn, cur, log>>

(***************************************************************************)
(* One request through the handler                                         *)
(***************************************************************************)

PlainRequests(paths) ==
    [kind : {"line"}, command : {"GET", "HEAD"}, path : paths,
     version : {"HTTP/1.1"}, cond : {NoCond}, connection : {""},
     expect100 : {FALSE}]

\* requests with any command, version and headers on short targets, read
\* under every permission of the tree; plain requests on long targets, read
\* with the tree readable
Requests ==
    ((LineRequests(PathsUpTo(MaxReqPieces)) \cup OddRequests) \X Perms)
        \cup (PlainRequests(PathsUpTo(MaxPathPieces)) \X {"ok"})

InitRequest ==
    /\ mode = "request"
    /\ \E rp \in Requests : req = rp[1] /\ perm = rp[2]
    /\ inited \in BOOLEAN
    /\ resp = [done |-> FALSE, out |-> Fresh(inited)]
    /\ ServerIdle

HandleOne ==
    /\ mode = "request"
    /\ ~resp.done
    /\ resp' = [done |-> TRUE, out |-> handle_one_request(req, perm, inited)]
    /\ inited' = resp'.out.inited
    /\ UNCHANGED <<mode, req, perm, serverVars>>

SpecRequest == InitRequest /\ [][HandleOne]_vars

(***************************************************************************)
(* The process: run_server.py from its first line to its end.              *)
(*                                                                         *)
(* proc is where the main (and only) thread is: "line4" before             *)
(* HTTPServer(...) has bound and listened, "line5" before ssl.wrap_socket  *)
(* has loaded the key pair, "select" in serve_forever waiting for the      *)
(* listening socket, "handshake" in get_request (SSLSocket.accept does the *)
(* TLS handshake of the connection it accepted), "handler" in              *)
(* finish_request (the handler reads and answers), "exited".               *)
(* exit is how the process ended: "1" the status of an uncaught            *)
(* exception, "0" a return from the last line, "SIGINT"/"SIGTERM" death by *)
(* that signal.                                                            *)
(***************************************************************************)

\* clients that connect during a run
NClients == 2

Clients == 1..NClients

\* TCPServer.request_queue_size, the argument of listen()
request_queue_size == 5

Signals == {"SIGINT", "SIGTERM"}

Serving == {"select", "handshake", "handler"}

\* a connection the handler is on: "open" waiting for a request line,
\* "headers" in parse_headers after the request line was read, "sending" in
\* copyfile after status line and headers were written
InHandler == {"open", "headers", "sending"}

\* what clients send in the server runs
SampleRequests ==
    { [kind |-> "line", command |-> "GET", path |-> <<"/", "f">>,
       version |-> "HTTP/1.1", cond |-> NoCond, connection |-> "keep-alive",
       expect100 |-> FALSE],
      [kind |-> "line", command |-> "POST", path |-> <<"/">>,
       version |-> "HTTP/1.0", cond |-> NoCond, connection |-> "",
       expect100 |-> FALSE],
      [kind |-> "line", command |-> "HEAD", path |-> <<"/", "f">>,
       version |-> "HTTP/1.0", cond |-> NoCond, connection |-> "",
       expect100 |-> FALSE],
      [kind |-> "line", command |-> "GET", path |-> <<"/", "d", "/", "f">>,
       version |-> "HTTP/1.0", cond |-> NoCond, connection |-> "",
       expect100 |-> FALSE],
      [kind |-> "eof", command |-> "GET", path |-> <<"/">>,
       version |-> "HTTP/1.1", cond |-> NoCond, connection |-> "",
       expect100 |-> FALSE] }

\* handle_one_request on each of them, tabulated
Responses ==
    [r \in SampleRequests \cup {NoReq} |->
        [ini \in BOOLEAN |-> handle_one_request(r, "ok", ini)]]

Event(e, c, codes) == [e |-> e, c |-> c, codes |-> codes]

\* a program whose line 5 is wrapped in try/except and goes on to serve
MutWrapIgnoringFailure(ok) == [proc |-> "select", exit |-> "none"]

\* line 5: ssl.wrap_socket -> SSLContext.load_cert_chain(certfile, keyfile);
\* its exception is not caught
wrap_socket(ok) ==
    IF ok THEN [proc |-> "select", exit |-> "none"]
    ELSE [proc |-> "exited", exit |-> "1"]

\* line 4: HTTPServer.__init__ -> server_bind, server_activate
HTTPServer(free) ==
    IF free THEN [proc |-> "line5", exit |-> "none"]
    ELSE [proc |-> "exited", exit |-> "1"]

\* an ssl.wrap_socket(..., do_handshake_on_connect=False)
MutNoHandshakeOnConnect == FALSE

\* ssl.wrap_socket's default do_handshake_on_connect, inherited by the
\* sockets SSLSocket.accept returns
do_handshake_on_connect == TRUE

\* a last line that is httpd.handle_request(): one connection, then the end
MutHandleRequestOnce == [proc |-> "exited", exit |-> "0"]

\* line 10: serve_forever loops back to select after _handle_request_noblock
serve_forever == [proc |-> "select", exit |-> "none"]

\* a get_request whose handshake error is no OSError and is not caught
MutGetRequestErrorRaises == [proc |-> "exited", exit |-> "1"]

\* _handle_request_noblock: "except OSError: return" around get_request
get_request_error == serve_forever

\* a ThreadingHTTPServer: process_request starts a thread
MutThreadingMixIn == FALSE

\* BaseServer.process_request calls finish_request in the serving thread
process_request_blocks == TRUE

\* a program that catches KeyboardInterrupt and returns
MutCatchesSignal(sig) == [proc |-> "exited", exit |-> "0"]

\* SIGINT raises KeyboardInterrupt in the main thread, which nothing
\* catches; SIGTERM has its default action
signal_received(sig) == [proc |-> "exited", exit |-> sig]

\* the kernel's end of every connection when the process ends
AtExit(cs) ==
    [c \in Clients |->
        IF cs[c] = "queued" THEN "reset"
        ELSE IF cs[c] \in {"handshaking"} \cup InHandler THEN "aborted"
        ELSE cs[c]]

\* the main thread moves to nx; a process that ends takes its sockets along
MoveTo(nx, cs) ==
    /\ proc' = nx.proc
    /\ exit' = nx.exit
    /\ conn' = IF nx.proc = "exited" THEN AtExit(cs) ELSE cs
    /\ backlog' = IF nx.proc = "exited" THEN <<>> ELSE backlog
    /\ cur' = IF nx.proc \in {"handshake", "handler"} THEN cur ELSE 0

InitServe ==
    /\ mode = "serve"
    /\ proc = "line4"
    /\ exit = "none"
    /\ portFree \in BOOLEAN
    /\ certOk \in BOOLEAN
    /\ backlog = <<>>
    /\ conn = [c \in Clients |-> "idle"]
    /\ cur = 0
    /\ log = <<>>
    /\ HandlerIdle

\* line 4
Bind ==
    /\ mode = "serve" /\ proc = "line4"
    /\ MoveTo(HTTPServer(portFree), conn)
    /\ UNCHANGED <<mode, portFree, certOk, log, handlerVars>>

\* line 5
LoadCert ==
    /\ mode = "serve" /\ proc = "line5"
    /\ MoveTo(wrap_socket(certOk), conn)
    /\ UNCHANGED <<mode, portFree, certOk, log, handlerVars>>

\* a client's connect(), or the retransmission of its SYN.  After
\* listen(request_queue_size) the kernel completes connections while the
\* accept queue holds at most request_queue_size of them; with the queue
\* full the SYN is dropped, and the client waits and retransmits until it
\* gives up.  A port nobody listens on refuses.
Connect(c) ==
    /\ mode = "serve" /\ conn[c] \in {"idle", "syn_sent"}
    /\ IF proc \in {"line5"} \cup Serving
       THEN IF Len(backlog) <= request_queue_size
            THEN /\ conn' = [conn EXCEPT ![c] = "queued"]
                 /\ backlog' = Append(backlog, c)
            ELSE /\ \E nx \in {"syn_sent", "timedout"} :
                       conn' = [conn EXCEPT ![c] = nx]
                 /\ backlog' = backlog
       ELSE /\ conn' = [conn EXCEPT ![c] = "refused"]
            /\ backlog' = backlog
    /\ UNCHANGED <<mode, proc, exit, portFree, certOk, cur, log, handlerVars>>

\* serve_forever: select reports the listening socket readable;
\* _handle_request_noblock -> get_request -> SSLSocket.accept
Accept ==
    /\ mode = "serve" /\ proc = "select" /\ backlog # <<>>
    /\ LET c == Head(backlog) IN
       /\ backlog' = Tail(backlog)
       /\ cur' = IF do_handshake_on_connect \/ process_request_blocks THEN c ELSE 0
       /\ conn' = [conn EXCEPT ![c] =
                      IF do_handshake_on_connect THEN "handshaking" ELSE "open"]
       /\ proc' = IF do_handshake_on_connect THEN "handshake"
                  ELSE IF process_request_blocks THEN "handler" ELSE "select"
       /\ log' = Append(log, Event("accept", c, <<>>))
    /\ UNCHANGED <<mode, exit, portFree, certOk, handlerVars>>

\* the client completes the handshake: accept returns, process_request
HandshakeOk(c) ==
    /\ mode = "serve" /\ proc = "handshake" /\ cur = c
    /\ conn' = [conn EXCEPT ![c] = "open"]
    /\ proc' = IF process_request_blocks THEN "handler" ELSE "select"
    /\ cur' = IF process_request_blocks THEN c ELSE 0
    /\ log' = Append(log, Event("handshake_ok", c, <<>>))
    /\ UNCHANGED <<mode, exit, portFree, certOk, backlog, handlerVars>>

\* the handshake fails (not TLS, no shared cipher, the peer closed):
\* do_handshake raises ssl.SSLError, SSLSocket._create closes the socket
HandshakeFail(c) ==
    /\ mode = "serve" /\ proc = "handshake" /\ cur = c
    /\ MoveTo(get_request_error, [conn EXCEPT ![c] = "dropped"])
    /\ log' = Append(log, Event("handshake_fail", c, <<>>))
    /\ UNCHANGED <<mode, portFree, certOk, handlerVars>>

\* the handler of connection c may take a step from phase ph
Handling(c, ph) ==
    /\ mode = "serve" /\ conn[c] = ph /\ proc # "exited"
    /\ process_request_blocks => proc = "handler" /\ cur = c

\* the main thread after the handler of its connection returned
AfterHandler(cs) ==
    IF process_request_blocks
    THEN MoveTo(serve_forever, cs)
    ELSE conn' = cs /\ UNCHANGED <<proc, exit, backlog, cur>>

\* handle(): after handle_one_request, either the next request of the
\* connection or finish and shutdown_request
EndOfRequest(c, close, events) ==
    IF close
    THEN /\ log' = log \o events \o <<Event("close", c, <<>>)>>
         /\ AfterHandler([conn EXCEPT ![c] = "closed"])
    ELSE /\ log' = log \o events
         /\ conn' = [conn EXCEPT ![c] = "open"]
         /\ UNCHANGED <<proc, exit, backlog, cur>>

\* the response is written: send_response logs it and the head goes out;
\* a body that copyfile streams is still to be read by the client.  An
\* answer without such a body is written and the handler returns, unless
\* the peer has reset the connection: then the write raises after the
\* response was logged, and handle_error and shutdown_request follow
Respond(c, r) ==
    \E out \in {Responses[r][inited]} :
        /\ inited' = out.inited
        /\ IF out.bodyKind \in {"file", "listing"}
           THEN /\ log' = Append(log, Event("response", c, out.status))
                /\ conn' = [conn EXCEPT ![c] = "sending"]
                /\ req' = r
                /\ resp' = [done |-> FALSE, out |-> out]
                /\ UNCHANGED <<proc, exit, backlog, cur>>
           ELSE /\ req' = NoReq
                /\ resp' = Pending
                /\ \E written \in IF out.logged = <<>> THEN {TRUE} ELSE BOOLEAN :
                     IF written
                     THEN EndOfRequest(c, out.close,
                              IF out.logged = <<>> THEN <<>>
                              ELSE <<Event("response", c, out.status)>>)
                     ELSE /\ log' = log \o <<Event("response", c, out.status),
                                              Event("handler_error", c, <<>>)>>
                          /\ AfterHandler([conn EXCEPT ![c] = "closed"])

\* rfile.readline returns what the client sent first: a request line that
\* parse_request accepts, after which parse_headers waits for the rest, or
\* something that is answered (or dropped) at once
ReadRequestLine(c) ==
    /\ Handling(c, "open")
    /\ \E r \in SampleRequests :
         IF ReachesParseHeaders(r)
         THEN /\ req' = r
              /\ conn' = [conn EXCEPT ![c] = "headers"]
              /\ log' = Append(log, Event("request", c, <<>>))
              /\ UNCHANGED <<proc, exit, backlog, cur, inited, resp>>
         ELSE Respond(c, r)
    /\ UNCHANGED <<mode, portFree, certOk, perm>>

\* the header lines and the blank line arrive: parse_headers returns, the
\* do_ method runs
ReadHeaders(c) ==
    /\ Handling(c, "headers")
    /\ Respond(c, req)
    /\ UNCHANGED <<mode, portFree, certOk, perm>>

\* the client has read the body: copyfile returns
CopyBody(c) ==
    /\ Handling(c, "sending")
    /\ req' = NoReq
    /\ resp' = Pending
    /\ EndOfRequest(c, resp.out.close, <<>>)
    /\ UNCHANGED <<mode, portFree, certOk, perm, inited>>

\* the connection breaks under the handler (reset, TLS alert), in any of
\* its waits: the exception reaches _handle_request_noblock: handle_error,
\* shutdown_request
HandlerError(c) ==
    /\ \E ph \in InHandler : Handling(c, ph)
    /\ log' = Append(log, Event("handler_error", c, <<>>))
    /\ AfterHandler([conn EXCEPT ![c] = "closed"])
    /\ req' = NoReq
    /\ resp' = Pending
    /\ UNCHANGED <<mode, portFree, certOk, perm, inited>>

\* a termination request.  SIGTERM ends the process where it is.  SIGINT
\* raises KeyboardInterrupt in the serving thread; inside a handler it
\* unwinds through the finally of BaseRequestHandler.__init__ (finish) and
\* the bare except of _handle_request_noblock (shutdown_request, raise), so
\* the thread closes the connection it is serving, the request in flight
\* left as it is, and then the process ends.  Inside get_request or select
\* nothing is closed on the way out.
Signal(sig) ==
    /\ mode = "serve" /\ proc # "exited"
    /\ \E unwinds \in {sig = "SIGINT" /\ proc = "handler" /\ cur # 0} :
         /\ MoveTo(signal_received(sig),
                   IF unwinds THEN [conn EXCEPT ![cur] = "closed"] ELSE conn)
         /\ log' = IF unwinds THEN Append(log, Event("close", cur, <<>>))
                   ELSE log
    /\ UNCHANGED <<mode, portFree, certOk, handlerVars>>

\* what client c's end of the connection does
ClientStep(c) ==
    \/ HandshakeOk(c) \/ HandshakeFail(c)
    \/ ReadRequestLine(c) \/ ReadHeaders(c) \/ CopyBody(c) \/ HandlerError(c)

Next ==
    \/ Bind
    \/ LoadCert
    \/ Accept
    \/ \E c \in Clients : Connect(c)
    \/ \E c \in Clients : ClientStep(c)
    \/ \E sig \in Signals : Signal(sig)

Spec == InitServe /\ [][Next]_vars

\* The thread runs whenever it can; a client that has connected keeps up
\* its end, except client 1, which may stop at any point and stay silent.
SpecFair ==
    /\ Spec
    /\ WF_vars(Bind) /\ WF_vars(LoadCert) /\ WF_vars(Accept)
    /\ \A c \in Clients \ {1} : WF_vars(ClientStep(c))

(***************************************************************************)
(* Properties of one request                                               *)
(***************************************************************************)

\* the request line was accepted and names a method the handler has, so
\* do_GET or do_HEAD ran
ReachedSendHead ==
    /\ resp.done
    /\ req.kind = "line"
    /\ parse_request(NoResp, req).ok
    /\ HasMethod(req.command)

\* self.path and the filesystem path send_head works on
ReqSelfPath == SelfPath(req.path)
ReqFsPath == translate_path(ReqSelfPath)

\* reading the decoded target left to right, some ".." climbs above the root
RECURSIVE Climbs(_, _)
Climbs(segs, depth) ==
    IF Len(segs) = 0 THEN FALSE
    ELSE IF Head(segs) = <<>> \/ Head(segs) = DOT THEN Climbs(Tail(segs), depth)
    ELSE IF Head(segs) = DOTDOT
    THEN depth = 0 \/ Climbs(Tail(segs), depth - 1)
    ELSE Climbs(Tail(segs), depth + 1)

ClimbsAboveRoot(path) == Climbs(Split(unquote(UrlsplitPath(path)), "/"), 0)

\* a filesystem path that is the served directory or below it, as text and
\* as the kernel resolves it
StaysUnderRoot(p) ==
    /\ Len(p) >= Len(directory)
    /\ SubSeq(p, 1, Len(directory)) = directory
    /\ (Len(p) > Len(directory) => p[Len(directory) + 1] = "/")
    /\ LET segs == Split(p, "/") IN \A i \in 1..Len(segs) : segs[i] # DOTDOT
    /\ (Lookup(p) = Missing \/ UnderRoot(Lookup(p)))

\* the calls mimetypes.init() makes, whatever the request
InitOps == {mimetypes_init[i] : i \in 1..Len(mimetypes_init)}

\* the filesystem calls made on paths that come from the request
IsResolvedOp(x) == x \notin InitOps
ResolvedOps == SelectSeq(resp.out.fsops, IsResolvedOp)

\* none of the paths of mimetypes.init() lies under the served directory
InitOpsOutsideRoot == \A x \in InitOps : ~StaysUnderRoot(x.path)

AllOpsUnderRoot ==
    \A i \in 1..Len(ResolvedOps) : StaysUnderRoot(ResolvedOps[i].path)

ErrorCodes == {400, 403, 404, 500}

\* C1 as stated: path resolution yields no filesystem path outside the
\* document root, and a request whose path would climb above the root is
\* rejected with an error before any filesystem access.
C1_RejectedBeforeAccess ==
    ReachedSendHead =>
        /\ AllOpsUnderRoot
        /\ (ClimbsAboveRoot(ReqSelfPath) =>
                /\ resp.out.fsops = <<>>
                /\ Len(resp.out.logged) = 1
                /\ resp.out.logged[1] \in ErrorCodes)

\* C1 as amended: for every request path, with ".." segments anywhere,
\* literal or percent-encoded, every filesystem path that path resolution
\* yields is the document root or a descendant of it and every file served
\* lies under it; a path that would climb above the root is not rejected:
\* its ".." segments are dropped and it is resolved, and looked up, inside
\* the root.  The only other filesystem calls are those of
\* mimetypes.init(), made once, on fixed paths outside the root that do not
\* depend on the request.
C1_NeverOutsideRoot ==
    resp.done =>
        /\ AllOpsUnderRoot
        /\ Len(resp.out.fsops) - Len(ResolvedOps) \in {0, Len(mimetypes_init)}
        /\ (Len(resp.out.fsops) # Len(ResolvedOps) => inited)
        /\ InitOpsOutsideRoot
        /\ (resp.out.bodyKind = "file" =>
                \E i \in 1..Len(resp.out.fsops) :
                    /\ resp.out.fsops[i].op = "open"
                    /\ UnderRoot(Lookup(resp.out.fsops[i].path))
                    /\ resp.out.body = FileBytes(Lookup(resp.out.fsops[i].path)))
        /\ (ReachedSendHead /\ ClimbsAboveRoot(ReqSelfPath) =>
                /\ resp.out.fsops # <<>>
                /\ resp.out.fsops[1] = Call("stat", "", ReqFsPath))

\* the first file request of a process climbs above the root and is
\* answered with a file
C1_Witness ==
    /\ ReachedSendHead
    /\ Len(resp.out.fsops) = Len(ResolvedOps) + Len(mimetypes_init)
    /\ ClimbsAboveRoot(ReqSelfPath)
    /\ resp.out.bodyKind = "file"
    /\ resp.out.logged = <<200>>

\* every status code produced, on the wire or in the error page
Produced ==
    {resp.out.logged[i] : i \in 1..Len(resp.out.logged)}
        \cup {resp.out.status[i] : i \in 1..Len(resp.out.status)}

\* a request line, within the size limits and with headers within theirs,
\* with a method other than GET and HEAD
OtherMethod == req.kind = "line" /\ req.command \notin {"GET", "HEAD"}

SentCodes == {200, 301, 304, 400, 404, 414, 431, 501, 505}

\* the request line ends in a version word HTTP/1.0 or HTTP/1.1 (or was too
\* long to be looked at): the reply then has a status line
HasVersionWord ==
    \/ req.kind = "toolong"
    \/ NWords(req) >= 3 /\ req.version \in {"HTTP/1.0", "HTTP/1.1"}

\* what a request line with another method is answered with
RejectCode ==
    IF req.version = "" \/ VersionNumber(req.version) = <<>> THEN 400
    ELSE IF req.version \in {"HTTP/1.0", "HTTP/1.1"} THEN 501
    ELSE 505

OnlyReads ==
    \A i \in 1..Len(resp.out.fsops) :
        \/ resp.out.fsops[i].op \in {"stat", "lstat", "listdir"}
        \/ resp.out.fsops[i].op = "open" /\ resp.out.fsops[i].mode \in {"r", "rb"}

NoListing ==
    /\ resp.out.bodyKind # "listing"
    /\ \A i \in 1..Len(resp.out.fsops) : resp.out.fsops[i].op # "listdir"

DirRequest == ReachedSendHead /\ isdir(ReqFsPath)

\* C7 as stated: a request for a directory is answered with the directory's
\* index.html when it exists and with 404 otherwise; no listing is ever
\* generated and nothing is written.
C7_IndexOr404 ==
    resp.done =>
        /\ OnlyReads
        /\ NoListing
        /\ (DirRequest =>
               IF isfile(PathJoin(ReqFsPath, INDEX_HTML))
               THEN /\ resp.out.logged = <<200>>
                    /\ (req.command = "GET" =>
                            resp.out.body =
                                FileBytes(Lookup(PathJoin(ReqFsPath, INDEX_HTML))))
               ELSE resp.out.logged = <<404>>)

\* the request has an If-Modified-Since date that is satisfied: it parses,
\* it has no zone or the zone GMT / +0000, it is not before the second in
\* which the file was last modified, and there is no If-None-Match
ImsSatisfied ==
    /\ req.cond.ims = "date"
    /\ req.cond.tz # "offset"
    /\ ~req.cond.inm
    /\ FileMtime < (req.cond.t + 1) * 1000000

\* what the handler answers with for the regular file path, in this order:
\* 404 with an error page when it cannot open it; 304 without a body when
\* If-Modified-Since is satisfied; otherwise 200, with the file's bytes as
\* the body of a GET and no body for a HEAD
ServedFile(path) ==
    IF ~CanOpen(path, perm)
    THEN /\ resp.out.logged = <<404>>
         /\ resp.out.bodyKind = (IF req.command = "GET" THEN "error" ELSE "none")
    ELSE IF ImsSatisfied
    THEN resp.out.logged = <<304>> /\ resp.out.bodyKind = "none"
    ELSE /\ resp.out.logged = <<200>>
         /\ (req.command = "GET" =>
                 resp.out.bodyKind = "file"
                 /\ resp.out.body = FileBytes(Lookup(path)))
         /\ (req.command = "HEAD" => resp.out.bodyKind = "none")

\* C7 as amended: a request whose path resolves to a directory is answered
\* 301 when the URL path has no trailing slash; otherwise, when the
\* directory has an index.html (or else an index.htm), as a request for that
\* file is: 200 with its bytes, 304 without a body when If-Modified-Since is
\* satisfied, 404 when it cannot be opened; and otherwise with a generated
\* listing of the directory (200), or 404 when the directory cannot be
\* listed.  A listing is generated for a directory only, and every
\* filesystem call the handler makes is a read.
C7_IndexOrListing ==
    resp.done =>
        /\ OnlyReads
        /\ (DirRequest =>
               IF ~EndsWith(UrlsplitPath(ReqSelfPath), "/")
               THEN resp.out.logged = <<301>> /\ resp.out.bodyKind = "none"
               ELSE IF isfile(PathJoin(ReqFsPath, INDEX_HTML))
               THEN ServedFile(PathJoin(ReqFsPath, INDEX_HTML))
               ELSE IF isfile(PathJoin(ReqFsPath, INDEX_HTM))
               THEN ServedFile(PathJoin(ReqFsPath, INDEX_HTM))
               ELSE IF CanList(ReqFsPath, perm)
               THEN /\ resp.out.logged = <<200>>
                    /\ resp.out.bodyKind =
                           (IF req.command = "GET" THEN "listing" ELSE "none")
               ELSE /\ resp.out.logged = <<404>>
                    /\ resp.out.bodyKind # "listing")
        /\ (resp.out.bodyKind = "listing" => DirRequest)

\* a GET for a directory without index.html answered with a listing
C7_Witness ==
    /\ DirRequest
    /\ req.command = "GET"
    /\ ~isfile(PathJoin(ReqFsPath, INDEX_HTML))
    /\ resp.out.bodyKind = "listing"
    /\ resp.out.status = <<200>>

\* a GET whose path resolves to an existing regular file under the root
FileGet ==
    /\ ReachedSendHead
    /\ req.command = "GET"
    /\ isfile(ReqFsPath)
    /\ UnderRoot(Lookup(ReqFsPath))

ExactFile ==
    /\ resp.out.status = <<200>>
    /\ resp.out.bodyKind = "file"
    /\ resp.out.body = FileBytes(Lookup(ReqFsPath))
    /\ resp.out.contentLength = Len(resp.out.body)

At(e, c) == {i \in 1..Len(log) : log[i].e = e /\ log[i].c = c}

\* the connections a handler is running on
ActiveHandlers == {c \in Clients : conn[c] \in InHandler}

\* the thread is inside the handshake or the handler of client 1
StalledOn1 == cur = 1 /\ proc \in {"handshake", "handler"}

\* the process ended before serve_forever took any connection, on the
\* exception of line 4 or line 5
StartupFailed == proc = "exited" /\ exit = "1" /\ log = <<>>

\* C2 as stated: a client blocked in its handshake or its I/O never keeps an
\* unrelated client from being accepted: client 2's pending connection is
\* eventually taken up even when client 1 stalls forever.
C2_StallDoesNotBlockOthers == (conn[2] = "queued") ~> (conn[2] # "queued")

\* C2 as amended: connections are handled one after the other on the one
\* serving thread, so client 2's pending connection is eventually accepted
\* and brought to its end (answered, or dropped for its own failure) in
\* every execution in which the client being served does not stall forever
\* and the process is not terminated; a client that stalls forever in its
\* handshake or its request keeps every later connection waiting.
C2_ServedUnlessEarlierClientStalls ==
    \/ <>[]StalledOn1
    \/ (conn[2] = "queued") ~>
           (conn[2] \in {"closed", "dropped"} \/ exit \in Signals \/ StartupFailed)

\* client 2 was answered after client 1 had been accepted ahead of it
C2_Witness ==
    \E i \in At("accept", 1) : \E j \in At("response", 2) :
        i < j /\ conn[2] = "closed"

\* C3: at every moment at most one connection handler is active, which is
\* within any configured maximum of one or more; while it is active the
\* thread is in that handler and not in the accept loop, and a further
\* connection is dispatched only after the earlier handler has completed.
C3_AtMostOneActiveHandler ==
    /\ Cardinality(ActiveHandlers) <= 1
    /\ \A c \in ActiveHandlers : proc = "handler" /\ cur = c
    /\ \A c \in Clients : \A d \in Clients \ {c} :
         \A i \in At("handshake_ok", c) : \A j \in At("handshake_ok", d) :
            i < j => \E k \in i..j :
                        log[k].c = c /\ log[k].e \in {"close", "handler_error"}

\* a handler is active while another client waits, after an earlier handler
\* completed
C3_Witness ==
    \E c \in Clients : \E d \in Clients \ {c} :
        /\ conn[c] = "closed" /\ At("response", c) # {}
        /\ conn[d] \in InHandler /\ At("handshake_ok", d) # {}

\* C4 as stated: after a termination request the process reaches Stopped
\* with exit status 0 when every handler finished and 2 when one was still
\* running; a request in flight is not cut off with status 0.
C4_DrainsThenExits0Or2 ==
    proc = "exited" /\ ~StartupFailed =>
        /\ exit \in {"0", "2"}
        /\ (exit = "0" => \A c \in Clients : conn[c] # "aborted")

\* C4 as amended: the lifecycle is Running -> Stopped with no Draining
\* state: a termination request ends the process by that signal (never with
\* exit status 0 or 2) without waiting for the request in flight.  SIGTERM
\* ends it at once: a connection in its handshake or its request is aborted.
\* SIGINT unwinds the handler that is running: the thread closes that
\* connection, without reading or answering anything more on it (a response
\* being copied out is cut short), and then the process ends; a connection
\* in its handshake is aborted.  Once stopped, no connection is ever
\* accepted.
C4_StopsAtOnce ==
    /\ [](proc = "exited" =>
            /\ exit \in Signals \cup {"1"}
            /\ (exit = "1" => StartupFailed)
            /\ backlog = <<>>
            /\ \A c \in Clients :
                 conn[c] \notin {"queued", "handshaking"} \cup InHandler)
    /\ [][proc = "exited" =>
            /\ UNCHANGED <<proc, exit, log, backlog>>
            /\ \A c \in Clients :
                 conn'[c] \in {conn[c], "refused", "timedout"}]_vars
    /\ [][exit = "none" /\ exit' \in Signals =>
            /\ UNCHANGED <<req, resp>>
            /\ \A c \in Clients :
                 /\ conn[c] = "handshaking" => conn'[c] = "aborted"
                 /\ conn[c] \in InHandler =>
                        IF exit' = "SIGINT"
                        THEN /\ conn'[c] = "closed"
                             /\ log' = Append(log, Event("close", c, <<>>))
                        ELSE conn'[c] = "aborted"
            /\ (exit' = "SIGTERM" \/ ActiveHandlers = {} => log' = log)]_vars

\* the process was stopped by SIGINT while a response whose 200 was
\* already sent and logged was still being copied out: the connection was
\* closed with the copy unfinished, and a later connection attempt was
\* refused
C4_Witness ==
    /\ proc = "exited" /\ exit = "SIGINT"
    /\ \E c \in Clients :
         /\ conn[c] = "closed"
         /\ log[Len(log)] = Event("close", c, <<>>)
         /\ log[Len(log) - 1] = Event("response", c, <<200>>)
         /\ resp.out.bodyKind = "file" /\ ~resp.done
    /\ \E c \in Clients : conn[c] = "refused"

\* some handshake has failed with an error of the TLS library
HandshakeFailed == \E c \in Clients : At("handshake_fail", c) # {}

\* what a handshake failure leaves behind: the connection is dropped and
\* nothing more happens on it, the process has not ended because of it (it
\* ends only by a signal), and the thread is back in the accept loop
FailureIsLocal ==
    \A c \in Clients :
        At("handshake_fail", c) # {} =>
            /\ conn[c] = "dropped"
            /\ exit \in Signals \cup {"none"}
            /\ (exit = "none" => proc \in Serving)
            /\ (log[Len(log)] = Event("handshake_fail", c, <<>>) =>
                    proc \in {"select", "exited"})
            /\ \A i \in At("handshake_fail", c) : \A j \in 1..Len(log) :
                   j > i => log[j].c # c

\* connection d was accepted and came to its end: its own handshake failed,
\* or its handler returned, and then a request that it sent in full on a
\* connection that did not break was answered
Served(d) ==
    \/ conn[d] = "dropped"
    \/ /\ conn[d] = "closed"
       /\ At("accept", d) # {}
       /\ (At("request", d) # {} /\ At("handler_error", d) = {} =>
               At("response", d) # {})

\* C5 as stated: a handshake failure (bad cipher, malformed ClientHello,
\* timeout) is handled per connection: the connection is dropped, the server
\* stays in its serving state, and every later connection of a client that
\* keeps up its end is still accepted and served.  The failure is either an
\* error of the TLS library or, for the timeout, a handshake that client 1
\* never completes.
C5_AnyFailureIsLocal ==
    /\ []FailureIsLocal
    /\ \A d \in Clients \ {1} :
         [](HandshakeFailed /\ conn[d] = "queued" =>
                <>(Served(d) \/ exit \in Signals))
    /\ (<>[](conn[1] = "handshaking") =>
            \A d \in Clients \ {1} :
                [](conn[d] = "queued" => <>(Served(d) \/ exit \in Signals)))

\* C5 as amended: a TLS handshake failure that the TLS library raises (bad
\* cipher, malformed ClientHello, connection closed by the client) drops that
\* connection only: the process stays in its serving loop (it ends only by a
\* signal), the thread goes back to the accept loop, and every connection
\* that is waiting once a handshake has failed is still accepted and served
\* (its handler runs to its end and answers the request it sent, or it is
\* dropped for a handshake failure of its own), unless the process is
\* terminated or the thread is held for ever by a client that stalls.  There is no handshake timeout: a handshake that never
\* completes is not a failure and keeps the thread, and every later
\* connection, waiting.
C5_HandshakeFailureIsLocal ==
    /\ []FailureIsLocal
    /\ \/ <>[]StalledOn1
       \/ \A d \in Clients :
            [](HandshakeFailed /\ conn[d] = "queued" =>
                   <>(Served(d) \/ exit \in Signals))

\* after a failed handshake another client was accepted and answered 200
C5_Witness ==
    \E c \in Clients : \E d \in Clients \ {c} :
        \E i \in At("handshake_fail", c) : \E j \in At("response", d) :
            i < j /\ log[j].codes = <<200>> /\ proc = "select"

\* C9: a startup failure (the port cannot be bound, the key pair cannot be
\* loaded) ends the process with exit status 1 before any connection is
\* accepted: the serving loop is entered only after both succeeded.
C9_StartupFailureIsFatal ==
    /\ (~portFree => proc \in {"line4", "exited"})
    /\ (~certOk => proc \in {"line4", "line5", "exited"})
    /\ (proc \in Serving \/ log # <<>> => portFree /\ certOk)
    /\ (~portFree \/ ~certOk =>
            /\ proc = "exited" => exit \in Signals \cup {"1"}
            /\ \A c \in Clients :
                 conn[c] \in {"idle", "queued", "refused", "reset",
                             "syn_sent", "timedout"})
    /\ (exit = "1" => StartupFailed /\ (~portFree \/ ~certOk))

\* the key pair failed to load after a client had connected to the bound
\* port: the process exited 1 and the client was never served
C9_Witness ==
    /\ proc = "exited" /\ exit = "1" /\ portFree /\ ~certOk
    /\ \E c \in Clients : conn[c] = "reset"

\* C10: on every connection the order is accept, TLS handshake, HTTP: a
\* request is read or answered only on a connection whose handshake
\* completed, which in turn was accepted before.
C10_HandshakeBeforeHttp ==
    /\ \A c \in Clients :
         \A i \in At("request", c) \cup At("response", c)
                    \cup At("close", c) \cup At("handler_error", c) :
            \E j \in At("handshake_ok", c) : j < i
    /\ \A c \in Clients :
         \A j \in At("handshake_ok", c) \cup At("handshake_fail", c) :
            \E k \in At("accept", c) : k < j
    /\ \A c \in Clients : conn[c] \in InHandler => At("handshake_ok", c) # {}

\* a request was answered 200 on a connection after its handshake
C10_Witness ==
    \E c \in Clients : \E i \in At("response", c) :
        /\ log[i].codes = <<200>>
        /\ \E j \in At("handshake_ok", c) : j < i

====
